---- MODULE Spec2Model ----
(***************************************************************************)
(* Model of tools/parse_schema.py and tools/generate_complete_viewer.py:   *)
(* the two line-oriented schema parsers, relationship inference, the type  *)
(* mapping, the dual JSON schema and the HTML viewer update.               *)
(*                                                                         *)
(* Python strings are TLA+ strings (sequences of characters); the string   *)
(* methods the code calls are defined character by character below.        *)
(* A Python dict is a sequence of <<key, value>> entries in insertion      *)
(* order with unique keys.  None is <<>> and a string s is <<s>> where a   *)
(* variable may hold either.                                               *)
(***************************************************************************)
EXTENDS Integers, Sequences, FiniteSets, TLC

VARIABLES
    dialect,           \* which parser reads the text: "ndc_plus" or "legacy"
    lines,             \* content.split('\n')
    i,                 \* index of the next line (0-based, as in the code)
    current_table,     \* <<>> (None) or <<name>>
    current_columns,   \* columns of the table block being read
    tables,            \* the dict under construction / returned
    relationships,     \* result of identify_relationships(tables)
    pc,                \* position in the run
    visits,            \* per line, how many loop iterations examined it
    \* main(), both schemas of one run
    ndc_plus_text,          \* the lines of NDC_PLUS_tables.txt
    legacy_text,            \* the lines of Legacy_tables.txt
    ndc_plus_tables,
    legacy_tables,
    legacy_relationships,
    ndc_plus_relationships,
    cross_relationships,
    json_schema,            \* None, or <<the document generate_dual_schema_json returned>>
    json_output,            \* schema/dual_schema.json: None, or <<its text>>
    main_pc,                \* the statement of main() that runs next
    \* the two type mappings applied to one declared type
    oracle_type,            \* the declared type, col['type']
    dual_json_type,         \* <<map_oracle_type_to_json(oracle_type)>>, None before
    json_type,              \* <<map_oracle_to_json_type(oracle_type)>>, None before
    types_pc,
    \* generate_complete_html_viewer(), run after run
    html_file,              \* the text of schema/docs/dual-schema-viewer.html
    viewer_runs,            \* how many runs have ended
    viewer_outcome,         \* how the last run ended
    html_after_first        \* None, or <<html_file as the first run left it>>

parseVars == <<dialect, lines, i, current_table, current_columns, tables,
               relationships, pc, visits>>

mainVars == <<ndc_plus_text, legacy_text, ndc_plus_tables, legacy_tables,
              legacy_relationships, ndc_plus_relationships, cross_relationships,
              json_schema, json_output, main_pc>>

viewerVars == <<html_file, viewer_runs, viewer_outcome, html_after_first>>

typeVars == <<oracle_type, dual_json_type, json_type, types_pc>>

vars == <<parseVars, mainVars, typeVars, viewerVars>>

-----------------------------------------------------------------------------
(* Bounds of the model *)

\* lines of a text read by one parser
MaxLines == 6

\* table blocks of each of the two texts read by main()
MaxBlocks == 2

\* pieces a declared type is put together from
MaxTypePieces == 2

\* runs of generate_complete_html_viewer that are followed
MaxRuns == 3

-----------------------------------------------------------------------------
(* Python str methods *)

Char(s, k) == SubSeq(s, k, k)

\* str.isspace() / regex \s on the characters the inputs use
IsSpace(c) == c \in {" ", "\t"}

RECURSIVE LStrip(_)
LStrip(s) ==
    IF Len(s) > 0 /\ IsSpace(Char(s, 1)) THEN LStrip(SubSeq(s, 2, Len(s))) ELSE s

RECURSIVE RStrip(_)
RStrip(s) ==
    IF Len(s) > 0 /\ IsSpace(Char(s, Len(s)))
    THEN RStrip(SubSeq(s, 1, Len(s) - 1)) ELSE s

\* str.strip()
Strip(s) == RStrip(LStrip(s))

\* str.startswith(p)
StartsWith(s, p) == Len(s) >= Len(p) /\ SubSeq(s, 1, Len(p)) = p

\* str.endswith(p)
EndsWith(s, p) == Len(s) >= Len(p) /\ SubSeq(s, Len(s) - Len(p) + 1, Len(s)) = p

\* str.replace(old, new) for non-empty old: every non-overlapping occurrence,
\* scanning from the left
RECURSIVE Replace(_, _, _)
Replace(s, old, new) ==
    IF Len(s) < Len(old) THEN s
    ELSE IF StartsWith(s, old)
         THEN new \o Replace(SubSeq(s, Len(old) + 1, Len(s)), old, new)
         ELSE Char(s, 1) \o Replace(SubSeq(s, 2, Len(s)), old, new)

\* sub in s
RECURSIVE Contains(_, _)
Contains(s, sub) ==
    IF Len(s) < Len(sub) THEN FALSE
    ELSE StartsWith(s, sub) \/ Contains(SubSeq(s, 2, Len(s)), sub)

\* length of the run of whitespace that starts s
RECURSIVE SpaceRun(_)
SpaceRun(s) ==
    IF Len(s) > 0 /\ IsSpace(Char(s, 1)) THEN 1 + SpaceRun(SubSeq(s, 2, Len(s))) ELSE 0

\* re.split(r'\s{2,}', s): acc is the list so far, its last element the part
\* being read
RECURSIVE SplitRuns(_, _)
SplitRuns(s, acc) ==
    IF Len(s) = 0 THEN acc
    ELSE IF SpaceRun(s) >= 2
         THEN SplitRuns(SubSeq(s, SpaceRun(s) + 1, Len(s)), Append(acc, ""))
         ELSE SplitRuns(SubSeq(s, 2, Len(s)),
                        [acc EXCEPT ![Len(acc)] = @ \o Char(s, 1)])

ReSplit2(s) == SplitRuns(s, <<"">>)

LowerLetters == "abcdefghijklmnopqrstuvwxyz"
UpperLetters == "ABCDEFGHIJKLMNOPQRSTUVWXYZ"

\* str.upper() of one character
UpperChar(c) ==
    IF \E k \in 1..Len(LowerLetters) : Char(LowerLetters, k) = c
    THEN Char(UpperLetters, CHOOSE k \in 1..Len(LowerLetters) : Char(LowerLetters, k) = c)
    ELSE c

\* str.upper()
RECURSIVE Upper(_)
Upper(s) ==
    IF Len(s) = 0 THEN s ELSE UpperChar(Char(s, 1)) \o Upper(SubSeq(s, 2, Len(s)))

-----------------------------------------------------------------------------
(* Python values *)

None == <<>>
Str(s) == <<s>>

\* truth value of a variable holding None or a string
Truthy(v) == v # None /\ v[1] # ""

\* dict: sequence of <<key, value>>, insertion order, unique keys
DictKeys(d) == {d[k][1] : k \in DOMAIN d}
KeyList(d) == [k \in DOMAIN d |-> d[k][1]]
HasKey(d, key) == key \in DictKeys(d)
DictGet(d, key) == d[CHOOSE k \in DOMAIN d : d[k][1] = key][2]

\* DictSet with a new key put first instead of last
DictSetFront(d, key, val) ==
    IF HasKey(d, key)
    THEN [k \in DOMAIN d |-> IF d[k][1] = key THEN <<key, val>> ELSE d[k]]
    ELSE <<<<key, val>>>> \o d

\* d[key] = val: a present key keeps its position, a new key goes last
DictSet(d, key, val) ==
    IF HasKey(d, key)
    THEN [k \in DOMAIN d |-> IF d[k][1] = key THEN <<key, val>> ELSE d[k]]
    ELSE Append(d, <<key, val>>)

\* the parser's local variables, as one record
ParserState(idx, ct, cc, tb) ==
    [i |-> idx, current_table |-> ct, current_columns |-> cc, tables |-> tb]

\* SavePrevious without the test of current_columns
SavePreviousAnyColumns(st) ==
    IF Truthy(st.current_table)
    THEN DictSet(st.tables, st.current_table[1], st.current_columns)
    ELSE st.tables

\* SavePrevious that adds the columns to an entry the name already has
SavePreviousMerging(st) ==
    IF Truthy(st.current_table) /\ st.current_columns # <<>>
    THEN DictSet(st.tables, st.current_table[1],
                 (IF HasKey(st.tables, st.current_table[1])
                  THEN DictGet(st.tables, st.current_table[1]) ELSE <<>>)
                     \o st.current_columns)
    ELSE st.tables

\* "if current_table and current_columns: tables[current_table] = current_columns"
SavePrevious(st) ==
    IF Truthy(st.current_table) /\ st.current_columns # <<>>
    THEN DictSet(st.tables, st.current_table[1], st.current_columns)
    ELSE st.tables

-----------------------------------------------------------------------------
(* parse_ndc_plus_schema_file *)

\* NdcPrimaryKey read as "a and (b or c)"
NdcPrimaryKeyGrouped(nullable, column_name) ==
    nullable = "NOT NULL"
        /\ (column_name = "UUID" \/ column_name \in {"INID", "STA_GRP_NAME"})

\* the primary_key expression of the modern parser: Python parses
\* "a and b or c" as "(a and b) or c"
NdcPrimaryKey(nullable, column_name) ==
    (nullable = "NOT NULL" /\ column_name = "UUID")
        \/ column_name \in {"INID", "STA_GRP_NAME"}

NdcColumn(column_name, nullable, col_type) ==
    [name |-> column_name,
     type |-> col_type,
     nullable |-> nullable # "NOT NULL",
     primary_key |-> NdcPrimaryKey(nullable, column_name)]

\* "current_table = line.replace('TABLE:', '').strip()"
NdcTableName(line) == Strip(Replace(line, "TABLE:", ""))

\* "if line.startswith('TABLE:')": save the previous table, start a new one
NdcHeader(line, st) ==
    ParserState(st.i + 1, Str(NdcTableName(line)), <<>>, SavePrevious(st))

\* "Skip header and separator lines"
NdcSkipped(line) ==
    StartsWith(line, "Column") \/ StartsWith(line, "---") \/ line = ""

\* NdcColumnLine that takes the first two parts of any line with 2 parts or more
NdcColumnLineFirstTwo(line, columns) ==
    LET parts == ReSplit2(line) IN
    IF Len(parts) >= 2
    THEN Append(columns, NdcColumn(Strip(parts[1]), "NULL", Strip(parts[2])))
    ELSE columns

\* "Parse column line": the columns list after the line
NdcColumnLine(line, columns) ==
    LET parts == ReSplit2(line) IN
    IF Len(parts) >= 2
    THEN IF Len(parts) = 3
         THEN Append(columns,
                     NdcColumn(Strip(parts[1]), Strip(parts[2]), Strip(parts[3])))
         ELSE IF Len(parts) = 2
              THEN Append(columns, NdcColumn(Strip(parts[1]), "NULL", Strip(parts[2])))
              ELSE columns
    ELSE columns

\* NdcIteration whose branch for skipped lines does not advance i
NdcIterationSkipStays(ls, st) ==
    LET line == Strip(ls[st.i + 1]) IN
    IF StartsWith(line, "TABLE:") THEN NdcHeader(line, st)
    ELSE IF NdcSkipped(line) THEN st
    ELSE IF Truthy(st.current_table) /\ Len(line) > 0
         THEN [st EXCEPT !.i = @ + 1, !.current_columns = NdcColumnLine(line, st.current_columns)]
         ELSE [st EXCEPT !.i = @ + 1]

\* one iteration of "while i < len(lines)"
NdcIteration(ls, st) ==
    LET line == Strip(ls[st.i + 1]) IN
    IF StartsWith(line, "TABLE:") THEN NdcHeader(line, st)
    ELSE IF NdcSkipped(line) THEN [st EXCEPT !.i = @ + 1]
    ELSE IF Truthy(st.current_table) /\ Len(line) > 0
         THEN [st EXCEPT !.i = @ + 1, !.current_columns = NdcColumnLine(line, st.current_columns)]
         ELSE [st EXCEPT !.i = @ + 1]

\* the while loop from state st on, then "Save last table"
RECURSIVE NdcRun(_, _)
NdcRun(ls, st) ==
    IF st.i < Len(ls) THEN NdcRun(ls, NdcIteration(ls, st)) ELSE SavePrevious(st)

\* the function on the lines of the file it reads
parse_ndc_plus_schema_file(ls) == NdcRun(ls, ParserState(0, None, <<>>, <<>>))

-----------------------------------------------------------------------------
(* parse_legacy_schema_file *)

UpperOrUnderscore == {"A", "B", "C", "D", "E", "F", "G", "H", "I", "J", "K", "L", "M",
                      "N", "O", "P", "Q", "R", "S", "T", "U", "V", "W", "X", "Y", "Z",
                      "_"}

\* length of the run of [A-Z_] characters that starts s
RECURSIVE NameRun(_)
NameRun(s) ==
    IF Len(s) > 0 /\ Char(s, 1) \in UpperOrUnderscore
    THEN 1 + NameRun(SubSeq(s, 2, Len(s))) ELSE 0

\* LegacyHeaderMatch without the character class and the anchor at the start:
\* any line that ends with whitespace and 'TABLE:' after some text
LegacyHeaderMatchAnyToken(line) ==
    \E n \in 1..Len(line) :
        /\ ~IsSpace(Char(line, n))
        /\ SpaceRun(SubSeq(line, n + 1, Len(line))) >= 1
        /\ SubSeq(line, n + 1 + SpaceRun(SubSeq(line, n + 1, Len(line))), Len(line)) = "TABLE:"

\* re.match(r'^[A-Z_]+\s+TABLE:$', line).  Neither class contains the character
\* that has to follow it, so both runs are matched whole.
LegacyHeaderMatch(line) ==
    LET n == NameRun(line)
        rest == SubSeq(line, n + 1, Len(line))
        w == SpaceRun(rest)
    IN  n >= 1 /\ w >= 1 /\ SubSeq(rest, w + 1, Len(rest)) = "TABLE:"

\* re.sub(r'\s+TABLE:$', '', line): the leftmost position from which whitespace
\* and then 'TABLE:' run to the end of the string is cut off (one match at most)
RECURSIVE ReSubTableSuffix(_)
ReSubTableSuffix(s) ==
    IF Len(s) = 0 THEN s
    ELSE IF SpaceRun(s) >= 1 /\ SubSeq(s, SpaceRun(s) + 1, Len(s)) = "TABLE:"
         THEN ""
         ELSE Char(s, 1) \o ReSubTableSuffix(SubSeq(s, 2, Len(s)))

LegacyPrimaryNames ==
    {"EVID", "ORID", "ARID", "AMPID", "MAGID", "COMMID", "TAGID", "WFID", "QCMASKID"}

\* LegacyColumn with nullable left at the default of the modern parser
LegacyColumnNullable(column_name, col_type) ==
    [name |-> column_name,
     type |-> col_type,
     nullable |-> TRUE,
     primary_key |-> column_name \in LegacyPrimaryNames]

LegacyColumn(column_name, col_type) ==
    LET is_primary == column_name \in LegacyPrimaryNames IN
    [name |-> column_name,
     type |-> col_type,
     nullable |-> ~is_primary,
     primary_key |-> is_primary]

\* "current_table = re.sub(r'\s+TABLE:$', '', line).strip()"
LegacyTableName(line) == Strip(ReSubTableSuffix(line))

\* the table-definition branch
LegacyHeader(line, st) ==
    ParserState(st.i + 1, Str(LegacyTableName(line)), <<>>, SavePrevious(st))

\* LegacyColumnLine that records a line of one part as a column without a type
LegacyColumnLineOnePart(line, columns) ==
    LET parts == ReSplit2(line) IN
    IF Len(parts) >= 2
    THEN Append(columns, LegacyColumn(Strip(parts[1]), Strip(parts[2])))
    ELSE Append(columns, LegacyColumn(Strip(parts[1]), ""))

\* "if current_table and original_line.startswith(' ')": the columns list after
\* the line
LegacyColumnLine(line, columns) ==
    LET parts == ReSplit2(line) IN
    IF Len(parts) >= 2
    THEN Append(columns, LegacyColumn(Strip(parts[1]), Strip(parts[2])))
    ELSE columns

\* one iteration of "while i < len(lines)"
LegacyIteration(ls, st) ==
    LET original_line == ls[st.i + 1]
        line == Strip(original_line)
    IN
    IF LegacyHeaderMatch(line) THEN LegacyHeader(line, st)
    ELSE IF line = "" THEN [st EXCEPT !.i = @ + 1]
    ELSE IF Truthy(st.current_table) /\ StartsWith(original_line, " ")
         THEN [st EXCEPT !.i = @ + 1, !.current_columns = LegacyColumnLine(line, st.current_columns)]
         ELSE [st EXCEPT !.i = @ + 1]

\* the while loop from state st on, then "Save last table"
RECURSIVE LegacyRun(_, _)
LegacyRun(ls, st) ==
    IF st.i < Len(ls) THEN LegacyRun(ls, LegacyIteration(ls, st)) ELSE SavePrevious(st)

\* the function on the lines of the file it reads
parse_legacy_schema_file(ls) == LegacyRun(ls, ParserState(0, None, <<>>, <<>>))

-----------------------------------------------------------------------------
(* identify_relationships *)

\* the table name the UUID rule looks up
UuidRefTable(col_name) == Replace(col_name, "_UUID", "")

\* the table name the GID rule looks up
GidRefTable(col_name) == Replace(col_name, "_GID", "")

ReferenceEdge(table_name, col_name, ref_table) ==
    [from_table |-> table_name, from_column |-> col_name,
     to_table |-> ref_table, to_column |-> "UUID"]

\* UuidEdges without the lookup of the referenced table
UuidEdgesUnchecked(tbls, table_name, col_name) ==
    IF EndsWith(col_name, "_UUID") /\ col_name # "UUID"
    THEN <<ReferenceEdge(table_name, col_name, UuidRefTable(col_name))>>
    ELSE <<>>

\* "UUID pattern matching"
UuidEdges(tbls, table_name, col_name) ==
    IF EndsWith(col_name, "_UUID") /\ col_name # "UUID"
       /\ HasKey(tbls, UuidRefTable(col_name))
    THEN <<ReferenceEdge(table_name, col_name, UuidRefTable(col_name))>>
    ELSE <<>>

\* GidEdges as a copy of the UUID block whose tests were left unchanged
GidEdgesCopiedUuid(tbls, table_name, col_name) ==
    IF EndsWith(col_name, "_UUID") /\ col_name # "UUID"
       /\ HasKey(tbls, UuidRefTable(col_name))
    THEN <<ReferenceEdge(table_name, col_name, UuidRefTable(col_name))>>
    ELSE <<>>

\* "GID pattern matching"
GidEdges(tbls, table_name, col_name) ==
    IF EndsWith(col_name, "_GID") /\ col_name # "GID"
       /\ HasKey(tbls, GidRefTable(col_name))
    THEN <<ReferenceEdge(table_name, col_name, GidRefTable(col_name))>>
    ELSE <<>>

\* "Special cases"
WfidEdges(table_name, col_name) ==
    IF col_name = "WFID"
    THEN <<[from_table |-> table_name, from_column |-> col_name,
            to_table |-> "WAVEFORM", to_column |-> "WFID",
            note |-> "External reference"]>>
    ELSE <<>>

\* ColumnEdges with the WFID edge emitted only when a WAVEFORM table exists
ColumnEdgesResolvedOnly(tbls, table_name, col) ==
    UuidEdges(tbls, table_name, col.name)
        \o GidEdges(tbls, table_name, col.name)
        \o (IF HasKey(tbls, "WAVEFORM") THEN WfidEdges(table_name, col.name) ELSE <<>>)

\* the body of "for col in columns"
ColumnEdges(tbls, table_name, col) ==
    UuidEdges(tbls, table_name, col.name)
        \o GidEdges(tbls, table_name, col.name)
        \o WfidEdges(table_name, col.name)

\* TableEdges that skips an edge equal to one the table already produced
RECURSIVE TableEdgesDeduplicated(_, _, _, _)
TableEdgesDeduplicated(tbls, table_name, columns, k) ==
    IF k > Len(columns) THEN <<>>
    ELSE LET rest == TableEdgesDeduplicated(tbls, table_name, columns, k + 1)
             keep(e) == \A r \in DOMAIN rest : rest[r] # e
         IN  SelectSeq(ColumnEdges(tbls, table_name, columns[k]), keep) \o rest

\* "for col in columns", from column k on
RECURSIVE TableEdges(_, _, _, _)
TableEdges(tbls, table_name, columns, k) ==
    IF k > Len(columns) THEN <<>>
    ELSE ColumnEdges(tbls, table_name, columns[k])
             \o TableEdges(tbls, table_name, columns, k + 1)

\* "for table_name, columns in tables.items()", from entry t on
RECURSIVE SchemaEdges(_, _)
SchemaEdges(tbls, t) ==
    IF t > Len(tbls) THEN <<>>
    ELSE TableEdges(tbls, tbls[t][1], tbls[t][2], 1) \o SchemaEdges(tbls, t + 1)

identify_relationships(tbls) == SchemaEdges(tbls, 1)

-----------------------------------------------------------------------------
(* identify_cross_schema_relationships *)

\* the dict legacy_to_ndc_mappings, in the order it is written
legacy_to_ndc_mappings ==
    << <<"EVENT", "EVENT">>,
       <<"ARRIVAL", "FEATURE_MEASUREMENT_ARRIVAL_TIME">>,
       <<"AMPLITUDE", "FEATURE_MEASUREMENT_AMPLITUDE">>,
       <<"ORIGIN", "LOCATION_SOLUTION">>,
       <<"ASSOC", "SIGNAL_DETECTION_HYPOTHESIS">>,
       <<"STAMAG", "STATION_MAGNITUDE_SOLUTION">>,
       <<"NETMAG", "NETWORK_MAGNITUDE_SOLUTION">>,
       <<"REMARK", "REMARK">> >>

CrossEdge(legacy_table, ndc_table) ==
    [legacy_table |-> legacy_table,
     ndc_plus_table |-> ndc_table,
     relationship_type |-> "conceptual_mapping",
     description |-> "Legacy " \o legacy_table \o " conceptually maps to NDC PLUS "
                         \o ndc_table]

\* CrossEdges with "or" in place of "and"
CrossEdgesEitherTable(legacy_tbls, ndc_tbls, legacy_table, ndc_table) ==
    IF HasKey(legacy_tbls, legacy_table) \/ HasKey(ndc_tbls, ndc_table)
    THEN <<CrossEdge(legacy_table, ndc_table)>>
    ELSE <<>>

\* the body of "for legacy_table, ndc_table in legacy_to_ndc_mappings.items()"
CrossEdges(legacy_tbls, ndc_tbls, legacy_table, ndc_table) ==
    IF HasKey(legacy_tbls, legacy_table) /\ HasKey(ndc_tbls, ndc_table)
    THEN <<CrossEdge(legacy_table, ndc_table)>>
    ELSE <<>>

\* the for loop, from entry m of the mapping on
RECURSIVE CrossFrom(_, _, _)
CrossFrom(legacy_tbls, ndc_tbls, m) ==
    IF m > Len(legacy_to_ndc_mappings) THEN <<>>
    ELSE CrossEdges(legacy_tbls, ndc_tbls,
                    legacy_to_ndc_mappings[m][1], legacy_to_ndc_mappings[m][2])
             \o CrossFrom(legacy_tbls, ndc_tbls, m + 1)

identify_cross_schema_relationships(legacy_tbls, ndc_tbls) ==
    CrossFrom(legacy_tbls, ndc_tbls, 1)

-----------------------------------------------------------------------------
(* The type mappings *)

\* map_oracle_type_to_json, which generate_dual_schema_json calls
map_oracle_type_to_json(declared) ==
    LET oracle_type_upper == Upper(declared) IN
    IF Contains(oracle_type_upper, "VARCHAR") \/ Contains(oracle_type_upper, "CHAR")
    THEN "string"
    ELSE IF Contains(oracle_type_upper, "NUMBER") \/ Contains(oracle_type_upper, "FLOAT")
    THEN "number"
    ELSE IF Contains(oracle_type_upper, "DATE") \/ Contains(oracle_type_upper, "TIMESTAMP")
    THEN "timestamp"
    ELSE IF Contains(oracle_type_upper, "RAW")
    THEN "binary"
    ELSE IF Contains(oracle_type_upper, "CLOB")
    THEN "string"
    ELSE "string"

\* map_oracle_to_json_type, which generate_json_schema calls
map_oracle_to_json_type(declared) ==
    LET upper == Upper(declared) IN
    IF Contains(upper, "VARCHAR") \/ Contains(upper, "CHAR") \/ Contains(upper, "CLOB")
    THEN "string"
    ELSE IF Contains(upper, "NUMBER") \/ Contains(upper, "FLOAT")
    THEN "number"
    ELSE IF Contains(upper, "TIMESTAMP") \/ Contains(upper, "DATE")
    THEN "timestamp"
    ELSE IF Contains(upper, "RAW")
    THEN "binary"
    ELSE "string"

-----------------------------------------------------------------------------
(* JSON documents.  A JSON value is a record [t, v] with t its kind: a     *)
(* string, a number, a boolean, an object (a dict of JSON values) or a     *)
(* list.                                                                   *)

JStr(s) == [t |-> "str", v |-> s]
JNum(n) == [t |-> "num", v |-> n]
JBool(b) == [t |-> "bool", v |-> b]
JObj(d) == [t |-> "obj", v |-> d]
JList(l) == [t |-> "list", v |-> l]

Digits == "0123456789"

\* str(n) for a natural number
RECURSIVE IntToStr(_)
IntToStr(n) ==
    IF n < 10 THEN Char(Digits, n + 1)
    ELSE IntToStr(n \div 10) \o Char(Digits, (n % 10) + 1)

\* json.dumps of the characters of a string (ASCII text: quote, backslash and
\* the control characters the inputs use are escaped)
RECURSIVE JsonEscape(_)
JsonEscape(s) ==
    IF Len(s) = 0 THEN s
    ELSE (CASE Char(s, 1) = "\"" -> "\\\""
            [] Char(s, 1) = "\\" -> "\\\\"
            [] Char(s, 1) = "\t" -> "\\t"
            [] Char(s, 1) = "\n" -> "\\n"
            [] OTHER -> Char(s, 1))
         \o JsonEscape(SubSeq(s, 2, Len(s)))

RECURSIVE Spaces(_)
Spaces(n) == IF n = 0 THEN "" ELSE " " \o Spaces(n - 1)

\* the line break and indentation json.dumps(indent=2) writes at nesting level
NewlineIndent(level) == "\n" \o Spaces(2 * level)

\* json.dumps(value, indent=2) at nesting level
RECURSIVE JsonEncode(_, _)
RECURSIVE JsonItems(_, _, _, _)
JsonItems(kind, items, k, level) ==
    IF k > Len(items) THEN ""
    ELSE (IF k > 1 THEN "," ELSE "") \o NewlineIndent(level)
         \o (IF kind = "obj"
             THEN "\"" \o JsonEscape(items[k][1]) \o "\": " \o JsonEncode(items[k][2], level)
             ELSE JsonEncode(items[k], level))
         \o JsonItems(kind, items, k + 1, level)

JsonEncode(value, level) ==
    CASE value.t = "str" -> "\"" \o JsonEscape(value.v) \o "\""
      [] value.t = "num" -> IntToStr(value.v)
      [] value.t = "bool" -> (IF value.v THEN "true" ELSE "false")
      [] value.t = "obj" ->
            IF value.v = <<>> THEN "{}"
            ELSE "{" \o JsonItems("obj", value.v, 1, level + 1)
                     \o NewlineIndent(level) \o "}"
      [] value.t = "list" ->
            IF value.v = <<>> THEN "[]"
            ELSE "[" \o JsonItems("list", value.v, 1, level + 1)
                     \o NewlineIndent(level) \o "]"

JsonDumps(value) == JsonEncode(value, 0)

-----------------------------------------------------------------------------
(* generate_dual_schema_json *)

\* the dict descriptions of get_legacy_table_description
LegacyDescriptions ==
    << <<"ACTIVE_ID", "Active identification tags and metadata">>,
       <<"AMPLITUDE", "Seismic signal amplitude measurements">>,
       <<"AMPLITUDE_DYN_PARS_INT", "Dynamic parameters for amplitude calculations">>,
       <<"ARRIVAL", "Seismic phase arrival information">>,
       <<"ARRIVAL_DYN_PARS_INT", "Dynamic parameters for arrival calculations">>,
       <<"AR_INFO", "Autoregressive model information">>,
       <<"ASSOC", "Associations between arrivals and origins">>,
       <<"EVENT", "Seismic event master records">>,
       <<"EVENT_CONTROL", "Event processing control parameters">>,
       <<"EVENT_CORRELATION", "Cross-correlation analysis of events">>,
       <<"NETMAG", "Network magnitude calculations">>,
       <<"ORIGERR", "Origin location error estimates">>,
       <<"ORIGIN", "Seismic event origin solutions">>,
       <<"QCMASKINFO", "Quality control mask information">>,
       <<"REMARK", "Comments and annotations">>,
       <<"STAMAG", "Station magnitude calculations">>,
       <<"WFTAG", "Waveform tag associations">> >>

get_legacy_table_description(table_name) ==
    IF HasKey(LegacyDescriptions, table_name)
    THEN DictGet(LegacyDescriptions, table_name)
    ELSE "Legacy database table: " \o table_name

\* the dict descriptions of get_table_description
NdcPlusDescriptions ==
    << <<"CHANNEL_SEGMENT", "Stores time series channel segment information for waveform data">>,
       <<"CHANNEL_SEGMENT_CREATION", "Tracks creation metadata for channel segments">>,
       <<"CHANNEL_SEGMENT_PROC_MASK_XREF", "Cross-reference between channel segments and processing masks">>,
       <<"CHANNEL_SEGMENT_WAVEFORM", "Links channel segments to waveform IDs">>,
       <<"EVENT", "Seismic event master table">>,
       <<"EVENT_CORRELATION", "Correlation analysis between seismic events">>,
       <<"EVENT_CORRELATION_CHANNEL_SEGMENT", "Channel segments used in event correlation">>,
       <<"EVENT_HYPOTHESIS", "Hypotheses about seismic event characteristics">>,
       <<"EVENT_HYPOTHESIS_TAG", "Tags and classifications for event hypotheses">>,
       <<"EVENT_STATUS_INFO", "Status and workflow information for events">>,
       <<"FEATURE_MEASUREMENT_AMPLITUDE", "Amplitude measurements from seismic signals">>,
       <<"FEATURE_MEASUREMENT_ARRIVAL_TIME", "Arrival time measurements for seismic phases">>,
       <<"FEATURE_MEASUREMENT_ENUMERATED", "Categorical feature measurements">>,
       <<"FEATURE_MEASUREMENT_NUMERIC", "Numeric feature measurements">>,
       <<"FEATURE_PREDICTION_ARRIVAL_TIME", "Predicted arrival times for seismic phases">>,
       <<"FEATURE_PREDICTION_COMPONENT", "Component-specific feature predictions">>,
       <<"FEATURE_PREDICTION_NUMERIC", "Numeric feature predictions">>,
       <<"INTERVAL", "Time intervals for processing and analysis">>,
       <<"LOCATION_BEHAVIOR", "Location calculation behavior and parameters">>,
       <<"LOCATION_RESTRAINT", "Constraints and restraints for location calculations">>,
       <<"LOCATION_SOLUTION", "Calculated geographic locations for events">>,
       <<"LOCATION_UNCERTAINTY", "Uncertainty estimates for event locations">>,
       <<"LOCATION_UNCERTAINTY_ELLIPSE", "Elliptical uncertainty representation">>,
       <<"LOCATION_UNCERTAINTY_ELLIPSOID", "Ellipsoidal 3D uncertainty representation">>,
       <<"NETWORK_MAGNITUDE_SOLUTION", "Network-level magnitude calculations">>,
       <<"PROCESSING_MASK", "Data quality masks and processing intervals">>,
       <<"PROCESSING_MASK_QC_SEGMENT_VERSION", "Links processing masks to QC segments">>,
       <<"QC_SEGMENT_VERSION", "Quality control segment versions">>,
       <<"REMARK", "Comments and annotations">>,
       <<"SIGNAL_DETECTION_HYPOTHESIS", "Signal detection hypotheses and picks">>,
       <<"STAGE_METRICS", "Performance metrics for processing stages">>,
       <<"STATION_MAGNITUDE_SOLUTION", "Station-level magnitude calculations">>,
       <<"RESPONSE_TABLE", "Instrument response specifications">>,
       <<"STATION_CHANNEL", "Station and channel configuration metadata">>,
       <<"STATION_GROUP_VERSION", "Station group definitions and versions">> >>

get_table_description(table_name) ==
    IF HasKey(NdcPlusDescriptions, table_name)
    THEN DictGet(NdcPlusDescriptions, table_name)
    ELSE "Database table: " \o table_name

\* the value stored under col['name'] in "columns"
ColumnSchema(col) ==
    JObj(<< <<"type", JStr(map_oracle_type_to_json(col.type))>>,
            <<"oracle_type", JStr(col.type)>>,
            <<"nullable", JBool(col.nullable)>>,
            <<"primary_key", JBool(col.primary_key)>> >>)

\* ColumnsSchema that keeps the entry of the first column of a name
RECURSIVE ColumnsSchemaKeepFirst(_, _, _)
ColumnsSchemaKeepFirst(columns, k, built) ==
    IF k > Len(columns) THEN built
    ELSE ColumnsSchemaKeepFirst(columns, k + 1,
             IF HasKey(built, columns[k].name) THEN built
             ELSE DictSet(built, columns[k].name, ColumnSchema(columns[k])))

\* "for col in columns: table_schema["columns"][col['name']] = {...}", from
\* column k on, on the dict built so far
RECURSIVE ColumnsSchema(_, _, _)
ColumnsSchema(columns, k, built) ==
    IF k > Len(columns) THEN built
    ELSE ColumnsSchema(columns, k + 1,
                       DictSet(built, columns[k].name, ColumnSchema(columns[k])))

TableSchema(description, columns) ==
    JObj(<< <<"description", JStr(description)>>,
            <<"columns", JObj(ColumnsSchema(columns, 1, <<>>))>> >>)

\* "Process Legacy tables": the dict schemas.legacy.tables, from entry t on
RECURSIVE LegacyTablesSchema(_, _, _)
LegacyTablesSchema(tbls, t, built) ==
    IF t > Len(tbls) THEN built
    ELSE LegacyTablesSchema(tbls, t + 1,
             DictSet(built, tbls[t][1],
                     TableSchema(get_legacy_table_description(tbls[t][1]), tbls[t][2])))

\* "Process NDC PLUS tables": the dict schemas.ndc_plus.tables, from entry t on
RECURSIVE NdcPlusTablesSchema(_, _, _)
NdcPlusTablesSchema(tbls, t, built) ==
    IF t > Len(tbls) THEN built
    ELSE NdcPlusTablesSchema(tbls, t + 1,
             DictSet(built, tbls[t][1],
                     TableSchema(get_table_description(tbls[t][1]), tbls[t][2])))

\* a cross-schema edge as the JSON object it is serialised as
CrossEdgeJson(edge) ==
    JObj(<< <<"legacy_table", JStr(edge.legacy_table)>>,
            <<"ndc_plus_table", JStr(edge.ndc_plus_table)>>,
            <<"relationship_type", JStr(edge.relationship_type)>>,
            <<"description", JStr(edge.description)>> >>)

generate_dual_schema_json(legacy_tbls, ndc_tbls, cross) ==
    JObj(<< <<"$schema", JStr("http://json-schema.org/draft-07/schema#")>>,
            <<"title", JStr("NDC PLUS and Legacy Database Schemas")>>,
            <<"description",
              JStr("Combined schema documentation for Legacy and NDC PLUS seismic monitoring systems")>>,
            <<"version", JStr("2.0.0")>>,
            <<"schemas",
              JObj(<< <<"legacy",
                        JObj(<< <<"database_type", JStr("Oracle")>>,
                                <<"description",
                                  JStr("Legacy seismic monitoring database schema")>>,
                                <<"table_count", JNum(Len(legacy_tbls))>>,
                                <<"tables", JObj(LegacyTablesSchema(legacy_tbls, 1, <<>>))>> >>)>>,
                      <<"ndc_plus",
                        JObj(<< <<"database_type", JStr("Oracle")>>,
                                <<"description",
                                  JStr("NDC PLUS modern seismic monitoring database schema")>>,
                                <<"table_count", JNum(Len(ndc_tbls))>>,
                                <<"tables", JObj(NdcPlusTablesSchema(ndc_tbls, 1, <<>>))>> >>)>> >>)>>,
            <<"cross_schema_relationships",
              JList([k \in DOMAIN cross |-> CrossEdgeJson(cross[k])])>> >>)

-----------------------------------------------------------------------------
(* Input texts.  A text is drawn over one palette of line kinds; a palette *)
(* that offers more kinds of line gets fewer lines, so that every palette  *)
(* contributes a comparable number of texts.                               *)

NdcPalettes ==
    { {"TABLE: EV", "TABLE: H", "EV_UUID  NOT NULL  RAW(16)"},
      {"TABLE: EV", "UUID  NOT NULL  RAW(16)", "UUID  RAW(16)",
       "INID  NUMBER(18)", "LAT  NOT NULL  FLOAT", "STA_GRP_NAME  VARCHAR2(6)"},
      {"TABLE: EV", "TABLE: EV_UUID", "EV_UUID_UUID  RAW(16)"},
      {"TABLE: H", "H_GID  NUMBER", "H_GID_GID  NUMBER", "EV_UUID  RAW(16)"},
      {"TABLE: EV", "TABLE: WAVEFORM", "WFID  NUMBER(18)"},
      {"  TABLE: EV ", "---", "Column  Null?  Type", "", "UUID \t NOT NULL   RAW(16)"},
      {"TABLE: EV", "TABLE:", "TABLE: TABLE:H", "A  B  C  D", "X", "H_UUID  RAW(16)"},
      {"TABLE: H_UUID", "TABLE: WFID", "H_UUID_GID  NUMBER", "WFID_UUID  RAW(16)"} }

LegacyPalettes ==
    { {"EV TABLE:", "OR  TABLE:", " ORID  NUMBER(9)"},
      {"EV TABLE:", "WAVEFORM TABLE:", " WFID  NUMBER(9)", " EV_UUID  RAW(16)"},
      {"EV TABLE:", " EVID  NUMBER(9)", " LAT  FLOAT(24)  X", " LAT", ""},
      {"EV TABLE:", " EV TABLE:", "\tLAT  FLOAT(24)", "LAT  FLOAT(24)", " LAT  FLOAT(24)"},
      {"EV TABLE:", "ev TABLE:", "EV TABLE: X", "E V TABLE:", " LDDATE \t DATE"} }

\* the texts over palette p: 1 .. MaxLines lines for three kinds of line, one
\* line fewer for each further kind
PaletteTexts(p) ==
    UNION { [1..n -> p] : n \in 1..(MaxLines + 3 - Cardinality(p)) }

NdcTexts == UNION { PaletteTexts(p) : p \in NdcPalettes }
LegacyTexts == UNION { PaletteTexts(p) : p \in LegacyPalettes }

-----------------------------------------------------------------------------
(* One parser run followed by identify_relationships on its result *)

\* the variables of a parser run while no single parser is followed
ParseIdle ==
    /\ dialect = "none"
    /\ lines = <<>>
    /\ i = 0
    /\ current_table = None
    /\ current_columns = <<>>
    /\ tables = <<>>
    /\ relationships = <<>>
    /\ visits = <<>>
    /\ pc = "idle"

\* the variables of main() while a single parser is followed
MainIdle ==
    /\ ndc_plus_text = <<>>
    /\ legacy_text = <<>>
    /\ ndc_plus_tables = <<>>
    /\ legacy_tables = <<>>
    /\ legacy_relationships = <<>>
    /\ ndc_plus_relationships = <<>>
    /\ cross_relationships = <<>>
    /\ json_schema = None
    /\ json_output = None
    /\ main_pc = "idle"

\* the variables of the viewer update while it does not run
ViewerIdle ==
    /\ html_file = ""
    /\ viewer_runs = 0
    /\ viewer_outcome = "idle"
    /\ html_after_first = None

\* the variables of the type mappings while no type is mapped
TypesIdle ==
    /\ oracle_type = ""
    /\ dual_json_type = None
    /\ json_type = None
    /\ types_pc = "idle"

Init ==
    /\ dialect \in {"ndc_plus", "legacy"}
    /\ lines \in (IF dialect = "ndc_plus" THEN NdcTexts ELSE LegacyTexts)
    /\ i = 0
    /\ current_table = None
    /\ current_columns = <<>>
    /\ tables = <<>>
    /\ relationships = <<>>
    /\ visits = [k \in DOMAIN lines |-> 0]
    /\ pc = "parse"
    /\ MainIdle
    /\ TypesIdle
    /\ ViewerIdle

Locals == ParserState(i, current_table, current_columns, tables)

SetLocals(st) ==
    /\ i' = st.i
    /\ current_table' = st.current_table
    /\ current_columns' = st.current_columns
    /\ tables' = st.tables

\* parse_ndc_plus_schema_file: one iteration of the while loop
NdcLoop ==
    /\ pc = "parse" /\ dialect = "ndc_plus"
    /\ i < Len(lines)
    /\ SetLocals(NdcIteration(lines, Locals))
    /\ visits' = [visits EXCEPT ![i + 1] = @ + 1]
    /\ UNCHANGED <<dialect, lines, relationships, pc, mainVars, typeVars, viewerVars>>

\* parse_ndc_plus_schema_file: "Save last table" and return
NdcReturn ==
    /\ pc = "parse" /\ dialect = "ndc_plus"
    /\ ~(i < Len(lines))
    /\ tables' = SavePrevious(Locals)
    /\ pc' = "parsed"
    /\ UNCHANGED <<dialect, lines, i, current_table, current_columns,
                   relationships, visits, mainVars, typeVars, viewerVars>>

\* parse_legacy_schema_file: one iteration of the while loop
LegacyLoop ==
    /\ pc = "parse" /\ dialect = "legacy"
    /\ i < Len(lines)
    /\ SetLocals(LegacyIteration(lines, Locals))
    /\ visits' = [visits EXCEPT ![i + 1] = @ + 1]
    /\ UNCHANGED <<dialect, lines, relationships, pc, mainVars, typeVars, viewerVars>>

\* parse_legacy_schema_file: "Save last table" and return
LegacyReturn ==
    /\ pc = "parse" /\ dialect = "legacy"
    /\ ~(i < Len(lines))
    /\ tables' = SavePrevious(Locals)
    /\ pc' = "parsed"
    /\ UNCHANGED <<dialect, lines, i, current_table, current_columns,
                   relationships, visits, mainVars, typeVars, viewerVars>>

\* main: identify_relationships(legacy_tables) / identify_relationships(ndc_plus_tables)
IdentifyRelationships ==
    /\ pc = "parsed"
    /\ relationships' = identify_relationships(tables)
    /\ pc' = "done"
    /\ UNCHANGED <<dialect, lines, i, current_table, current_columns, tables, visits,
                   mainVars, typeVars, viewerVars>>

Next ==
    \/ NdcLoop
    \/ NdcReturn
    \/ LegacyLoop
    \/ LegacyReturn
    \/ IdentifyRelationships

Spec == Init /\ [][Next]_vars

\* One parser run to its end.  The texts have a line for every branch of the
\* two line loops: header, skipped line, column line, rejected line.
LiveNdcPalette == {"TABLE: EV", "---", "UUID  NOT NULL  RAW(16)", "A  B  C  D", "X"}
LiveLegacyPalette == {"EV TABLE:", "", " EVID  NUMBER(9)", " LAT", "LAT  FLOAT(24)"}

LiveInit ==
    /\ dialect \in {"ndc_plus", "legacy"}
    /\ lines \in PaletteTexts(IF dialect = "ndc_plus" THEN LiveNdcPalette
                                                      ELSE LiveLegacyPalette)
    /\ i = 0
    /\ current_table = None
    /\ current_columns = <<>>
    /\ tables = <<>>
    /\ relationships = <<>>
    /\ visits = [k \in DOMAIN lines |-> 0]
    /\ pc = "parse"
    /\ MainIdle
    /\ TypesIdle
    /\ ViewerIdle

\* "while i < len(lines):" holds, so the body runs once more on line i
WhileBody ==
    /\ pc = "parse"
    /\ i < Len(lines)
    /\ visits' = [visits EXCEPT ![i + 1] = @ + 1]

\* "while i < len(lines):" fails, so the statements after the loop run
WhileExit ==
    /\ pc = "parse"
    /\ i >= Len(lines)
    /\ pc' = "parsed"

\* the program runs on: a statement that can run does run (one thread, no
\* waiting).  The fairness is on the loop body running and on the loop being
\* left, each told by the variable it changes; what the body does to i is
\* left to NdcLoop and LegacyLoop.
SpecLive == LiveInit /\ [][Next]_vars /\ WF_visits(WhileBody) /\ WF_pc(WhileExit)

-----------------------------------------------------------------------------
(* main(): both files parsed, then the relationships.  Each of the two     *)
(* texts is made of at most MaxBlocks blocks of lines drawn from one of    *)
(* the pairs of block sets below; a text without blocks is the empty file, *)
(* whose only line is empty.                                               *)

MainBlockSets ==
    { [legacy |-> { <<"EVENT TABLE:", " EVID  NUMBER(9)">>,
                    <<"ORIGIN TABLE:", " ORID  NUMBER(9)", " EVID  NUMBER(9)">>,
                    <<"ORIGIN TABLE:">>,
                    <<"LOCATION_SOLUTION TABLE:", " LAT  FLOAT(24)">> },
       ndc_plus |-> { <<"TABLE: EVENT", "UUID  NOT NULL  RAW(16)">>,
                      <<"TABLE: LOCATION_SOLUTION", "EVENT_UUID  NOT NULL  RAW(16)">>,
                      <<"TABLE: ORIGIN", "UUID  NOT NULL  RAW(16)">> }],
      [legacy |-> { <<"ARRIVAL TABLE:", " ARID  NUMBER(9)">>,
                    <<"AMPLITUDE TABLE:", " AMPID  NUMBER(9)">>,
                    <<"ASSOC TABLE:", " ARID  NUMBER(9)">> },
       ndc_plus |-> { <<"TABLE: FEATURE_MEASUREMENT_ARRIVAL_TIME", "TIME  TIMESTAMP(6)">>,
                      <<"TABLE: FEATURE_MEASUREMENT_AMPLITUDE", "AMP  FLOAT">>,
                      <<"TABLE: SIGNAL_DETECTION_HYPOTHESIS">> }],
      [legacy |-> { <<"STAMAG TABLE:", " MAGID  NUMBER(9)">>,
                    <<"NETMAG TABLE:", " MAGID  NUMBER(9)">>,
                    <<"REMARK TABLE:", " COMMID  NUMBER(9)">> },
       ndc_plus |-> { <<"TABLE: STATION_MAGNITUDE_SOLUTION", "UUID  NOT NULL  RAW(16)">>,
                      <<"TABLE: NETWORK_MAGNITUDE_SOLUTION", "UUID  NOT NULL  RAW(16)">>,
                      <<"TABLE: REMARK", "REMARK  CLOB">>,
                      <<"TABLE: STAMAG", "UUID  NOT NULL  RAW(16)">> }],
      [legacy |-> { <<"EVENT TABLE:", " EVID  NUMBER(9)", " LAT  FLOAT(24)", " EVID  DATE">>,
                    <<"REMARK TABLE:", " COMMID  NUMBER(9)">> },
       ndc_plus |-> { <<"TABLE: EVENT", "UUID  NOT NULL  RAW(16)", "LAT  FLOAT", "UUID  CLOB">>,
                      <<"TABLE: REMARK", "REMARK  CLOB", "REMARK  CLOB">> }] }

\* the lines of a sequence of blocks, one after the other
RECURSIVE Flatten(_)
Flatten(blocks) ==
    IF blocks = <<>> THEN <<>> ELSE Head(blocks) \o Flatten(Tail(blocks))

\* the texts of at most MaxBlocks blocks drawn from the set bs
BlockTexts(bs) ==
    {<<"">>} \cup UNION { {Flatten(q) : q \in [1..n -> bs]} : n \in 1..MaxBlocks }

MainInit ==
    /\ \E p \in MainBlockSets :
          /\ legacy_text \in BlockTexts(p.legacy)
          /\ ndc_plus_text \in BlockTexts(p.ndc_plus)
    /\ ndc_plus_tables = <<>>
    /\ legacy_tables = <<>>
    /\ legacy_relationships = <<>>
    /\ ndc_plus_relationships = <<>>
    /\ cross_relationships = <<>>
    /\ json_schema = None
    /\ json_output = None
    /\ main_pc = "parse_ndc_plus"
    /\ ParseIdle
    /\ TypesIdle
    /\ ViewerIdle

\* "ndc_plus_tables = parse_ndc_plus_schema_file(ndc_plus_file)"
MainParseNdcPlus ==
    /\ main_pc = "parse_ndc_plus"
    /\ ndc_plus_tables' = parse_ndc_plus_schema_file(ndc_plus_text)
    /\ main_pc' = "parse_legacy"
    /\ UNCHANGED <<ndc_plus_text, legacy_text, legacy_tables, legacy_relationships,
                   ndc_plus_relationships, cross_relationships, json_schema, json_output,
                   parseVars, typeVars, viewerVars>>

\* "legacy_tables = parse_legacy_schema_file(legacy_file)"
MainParseLegacy ==
    /\ main_pc = "parse_legacy"
    /\ legacy_tables' = parse_legacy_schema_file(legacy_text)
    /\ main_pc' = "identify_legacy"
    /\ UNCHANGED <<ndc_plus_text, legacy_text, ndc_plus_tables, legacy_relationships,
                   ndc_plus_relationships, cross_relationships, json_schema, json_output,
                   parseVars, typeVars, viewerVars>>

\* "legacy_relationships = identify_relationships(legacy_tables)"
MainIdentifyLegacy ==
    /\ main_pc = "identify_legacy"
    /\ legacy_relationships' = identify_relationships(legacy_tables)
    /\ main_pc' = "identify_ndc_plus"
    /\ UNCHANGED <<ndc_plus_text, legacy_text, ndc_plus_tables, legacy_tables,
                   ndc_plus_relationships, cross_relationships, json_schema, json_output,
                   parseVars, typeVars, viewerVars>>

\* "ndc_plus_relationships = identify_relationships(ndc_plus_tables)"
MainIdentifyNdcPlus ==
    /\ main_pc = "identify_ndc_plus"
    /\ ndc_plus_relationships' = identify_relationships(ndc_plus_tables)
    /\ main_pc' = "identify_cross"
    /\ UNCHANGED <<ndc_plus_text, legacy_text, ndc_plus_tables, legacy_tables,
                   legacy_relationships, cross_relationships, json_schema, json_output,
                   parseVars, typeVars, viewerVars>>

\* "cross_relationships = identify_cross_schema_relationships(legacy_tables,
\* ndc_plus_tables)"
MainIdentifyCross ==
    /\ main_pc = "identify_cross"
    /\ cross_relationships' =
           identify_cross_schema_relationships(legacy_tables, ndc_plus_tables)
    /\ main_pc' = "generate_json"
    /\ UNCHANGED <<ndc_plus_text, legacy_text, ndc_plus_tables, legacy_tables,
                   legacy_relationships, ndc_plus_relationships, json_schema, json_output,
                   parseVars, typeVars, viewerVars>>

\* MainGenerateJson with the two table mappings passed in the wrong order
MainGenerateJsonSwapped ==
    /\ main_pc = "generate_json"
    /\ json_schema' =
           <<generate_dual_schema_json(ndc_plus_tables, legacy_tables, cross_relationships)>>
    /\ main_pc' = "dump_json"
    /\ UNCHANGED <<ndc_plus_text, legacy_text, ndc_plus_tables, legacy_tables,
                   legacy_relationships, ndc_plus_relationships, cross_relationships,
                   json_output, parseVars, typeVars, viewerVars>>

\* "json_schema = generate_dual_schema_json(legacy_tables, ndc_plus_tables,
\* cross_relationships)"
MainGenerateJson ==
    /\ main_pc = "generate_json"
    /\ json_schema' =
           <<generate_dual_schema_json(legacy_tables, ndc_plus_tables, cross_relationships)>>
    /\ main_pc' = "dump_json"
    /\ UNCHANGED <<ndc_plus_text, legacy_text, ndc_plus_tables, legacy_tables,
                   legacy_relationships, ndc_plus_relationships, cross_relationships,
                   json_output, parseVars, typeVars, viewerVars>>

\* "with open(json_output, 'w') as f: json.dump(json_schema, f, indent=2)"
MainDumpJson ==
    /\ main_pc = "dump_json"
    /\ json_output' = <<JsonDumps(json_schema[1])>>
    /\ main_pc' = "done"
    /\ UNCHANGED <<ndc_plus_text, legacy_text, ndc_plus_tables, legacy_tables,
                   legacy_relationships, ndc_plus_relationships, cross_relationships,
                   json_schema, parseVars, typeVars, viewerVars>>

MainNext ==
    \/ MainParseNdcPlus
    \/ MainParseLegacy
    \/ MainIdentifyLegacy
    \/ MainIdentifyNdcPlus
    \/ MainIdentifyCross
    \/ MainGenerateJson
    \/ MainDumpJson

SpecMain == MainInit /\ [][MainNext]_vars

-----------------------------------------------------------------------------
(* The two type mappings applied to a declared type.  A declared type is   *)
(* any text a column line carries as its type part; here it is put         *)
(* together from at most MaxTypePieces pieces.                             *)

TypePieces ==
    {"VARCHAR2", "CHAR", "CLOB", "NUMBER", "FLOAT", "DATE", "TIMESTAMP", "RAW",
     "nclob", "Raw", "number", "BLOB", "(16)", "_"}

RECURSIVE Join(_)
Join(pieces) == IF pieces = <<>> THEN "" ELSE Head(pieces) \o Join(Tail(pieces))

DeclaredTypes ==
    UNION { {Join(q) : q \in [1..n -> TypePieces]} : n \in 1..MaxTypePieces }

TypesInit ==
    /\ oracle_type \in DeclaredTypes
    /\ dual_json_type = None
    /\ json_type = None
    /\ types_pc = "dual"
    /\ ParseIdle
    /\ MainIdle
    /\ ViewerIdle

\* generate_dual_schema_json: "type": map_oracle_type_to_json(col['type'])
MapForDualSchema ==
    /\ types_pc = "dual"
    /\ dual_json_type' = Str(map_oracle_type_to_json(oracle_type))
    /\ types_pc' = "single"
    /\ UNCHANGED <<oracle_type, json_type, parseVars, mainVars, viewerVars>>

\* generate_json_schema: "type": map_oracle_to_json_type(col['type'])
MapForSchema ==
    /\ types_pc = "single"
    /\ json_type' = Str(map_oracle_to_json_type(oracle_type))
    /\ types_pc' = "done"
    /\ UNCHANGED <<oracle_type, dual_json_type, parseVars, mainVars, viewerVars>>

TypesNext == MapForDualSchema \/ MapForSchema

SpecTypes == TypesInit /\ [][TypesNext]_vars

----------------------------------------------------------------------------
\* generate_complete_viewer.py: generate_complete_html_viewer()

\* str.find(sub): the lowest 0-based index where sub occurs in s, or -1
Find(s, sub) ==
    LET hits == {k \in 0..(Len(s) - Len(sub)) : SubSeq(s, k + 1, k + Len(sub)) = sub}
    IN  IF hits = {} THEN -1 ELSE CHOOSE k \in hits : \A j \in hits : k <= j

\* html_content[:idx] and html_content[idx:]
SliceTo(s, idx) == SubSeq(s, 1, idx)
SliceFrom(s, idx) == SubSeq(s, idx + 1, Len(s))

start_marker == "const schemaData = {"

\* end_idx before the loop assigns it
Unbound == -1

\* the locals of the scanning loop as it starts
ScanStart ==
    [brace_count |-> 0, in_string |-> FALSE, escape_next |-> FALSE, end_idx |-> Unbound]

\* one iteration of "while current_idx < len(html_content)"; after the break
\* no iteration runs
ScanStep(html_content, st, current_idx) ==
    LET char == Char(html_content, current_idx + 1) IN
    IF st.end_idx # Unbound THEN st
    ELSE IF st.escape_next THEN [st EXCEPT !.escape_next = FALSE]
    ELSE IF char = "\\" THEN [st EXCEPT !.escape_next = TRUE]
    ELSE IF char = "\"" /\ ~st.escape_next THEN [st EXCEPT !.in_string = ~st.in_string]
    ELSE IF ~st.in_string THEN
        IF char = "{" THEN [st EXCEPT !.brace_count = st.brace_count + 1]
        ELSE IF char = "}" THEN
            IF st.brace_count - 1 = 0
                THEN [st EXCEPT !.brace_count = 0, !.end_idx = current_idx + 1]
                ELSE [st EXCEPT !.brace_count = st.brace_count - 1]
        ELSE st
    ELSE st

\* the iterations for current_idx = lo .. hi, in order, none after the break
\* (the range is halved to keep the evaluation shallow; the order of the
\* iterations is the loop's)
RECURSIVE ScanRange(_, _, _, _)
ScanRange(html_content, st, lo, hi) ==
    IF st.end_idx # Unbound \/ lo > hi THEN st
    ELSE IF lo = hi THEN ScanStep(html_content, st, lo)
    ELSE LET mid == (lo + hi) \div 2
         IN  ScanRange(html_content, ScanRange(html_content, st, lo, mid), mid + 1, hi)

\* the loop from start_idx + len("const schemaData = ") to the end of the text
ScanObject(html_content, start_idx) ==
    ScanRange(html_content, ScanStart, start_idx + Len("const schemaData = "),
              Len(html_content) - 1)

\* the text the function leaves in the HTML file and how it ends, for the
\* document schema_data and the file text html_content
generate_complete_html_viewer(schema_data, html_content) ==
    LET js_schema_data == JsonDumps(schema_data)
        start_idx == Find(html_content, start_marker)
        end_idx == ScanObject(html_content, start_idx).end_idx
    IN  IF start_idx = -1
            THEN [html |-> html_content, outcome |-> "no_marker"]
        ELSE IF end_idx = Unbound
            THEN [html |-> html_content, outcome |-> "UnboundLocalError"]
        ELSE [html |-> SliceTo(html_content, start_idx)
                           \o "const schemaData = " \o js_schema_data \o ";"
                           \o SliceFrom(html_content, end_idx),
              outcome |-> "updated"]

\* the input texts whose documents the viewer is run with
ViewerSchemas ==
    { << <<>>, <<>> >>,
      << <<"ORIGIN TABLE:", " ORID  NUMBER">>,
         <<"TABLE: LOCATION_SOLUTION", "LOCATION_UUID  NOT NULL  RAW(16)">> >>,
      << <<>>, <<"TABLE: A}", "C\"{  CHAR(1)">> >>,
      << <<"EVENT TABLE:", " EVID  NUMBER", "Primary Keys: EVID">>,
         <<"TABLE: EVENT", "EVENT_UUID  RAW(16)", "NOTE\\  CLOB">> >> }

\* main()'s document for a pair of input texts (their lines)
DocumentOf(legacy, ndc_plus) ==
    LET legacy_tbls == parse_legacy_schema_file(legacy)
        ndc_tbls == parse_ndc_plus_schema_file(ndc_plus)
    IN  generate_dual_schema_json(legacy_tbls, ndc_tbls,
            identify_cross_schema_relationships(legacy_tbls, ndc_tbls))

ViewerDocuments == { DocumentOf(p[1], p[2]) : p \in ViewerSchemas }

\* the viewer files the runs start from
HtmlTemplates ==
    { "<script>const schemaData = {};</script>",
      "<script>\nconst schemaData = {\"a\": {\"b\": \"}\"}};\nrender(schemaData);\n</script>",
      "let n = 1; const schemaData = {\"t\": {}}\nrender();",
      "const schemaData = {\"k\": \"\\\"}\"}; const schemaData = {};",
      "<p>no data</p>",
      "const schemaData = [];",
      "const schemaData = {\"a\": \"x",
      "const schemaData = {\"a\": {\"b\": 1};" }

\* dual_schema.json holds a document main() wrote; json.load gives the
\* document back (its keys are strings, its values strings, integers,
\* booleans, lists and dicts)
ViewerInit ==
    /\ json_schema \in { <<d>> : d \in ViewerDocuments }
    /\ json_output = <<JsonDumps(json_schema[1])>>
    /\ html_file \in HtmlTemplates
    /\ viewer_runs = 0
    /\ viewer_outcome = "idle"
    /\ html_after_first = None
    /\ ndc_plus_text = <<>>
    /\ legacy_text = <<>>
    /\ ndc_plus_tables = <<>>
    /\ legacy_tables = <<>>
    /\ legacy_relationships = <<>>
    /\ ndc_plus_relationships = <<>>
    /\ cross_relationships = <<>>
    /\ main_pc = "done"
    /\ ParseIdle
    /\ TypesIdle

\* one run of generate_complete_html_viewer()
GenerateCompleteHtmlViewer ==
    /\ viewer_runs < MaxRuns
    /\ LET run == generate_complete_html_viewer(json_schema[1], html_file) IN
        /\ html_file' = run.html
        /\ viewer_outcome' = run.outcome
        /\ html_after_first' = IF viewer_runs = 0 THEN <<run.html>> ELSE html_after_first
    /\ viewer_runs' = viewer_runs + 1
    /\ UNCHANGED <<parseVars, mainVars, typeVars>>

ViewerNext == GenerateCompleteHtmlViewer

SpecViewer == ViewerInit /\ [][ViewerNext]_vars

-----------------------------------------------------------------------------
(* The table blocks of a text, read off the text itself: a block is a      *)
(* header line and the lines up to the next header line.                   *)

Parsed == pc \in {"parsed", "done"}

IsHeaderLine(d, raw) ==
    IF d = "ndc_plus" THEN StartsWith(Strip(raw), "TABLE:")
    ELSE LegacyHeaderMatch(Strip(raw))

HeaderName(d, raw) ==
    IF d = "ndc_plus" THEN NdcTableName(Strip(raw)) ELSE LegacyTableName(Strip(raw))

\* the column a line inside a named block is recognised as: <<column>> or <<>>
RecognisedColumn(d, raw) ==
    IF d = "ndc_plus"
    THEN IF NdcSkipped(Strip(raw)) THEN <<>> ELSE NdcColumnLine(Strip(raw), <<>>)
    ELSE IF Strip(raw) = "" \/ ~StartsWith(raw, " ") THEN <<>>
         ELSE LegacyColumnLine(Strip(raw), <<>>)

Headers(d, ls) == {k \in DOMAIN ls : IsHeaderLine(d, ls[k])}

\* a finite set of numbers as an increasing sequence
RECURSIVE Increasing(_)
Increasing(S) ==
    IF S = {} THEN <<>>
    ELSE LET m == CHOOSE x \in S : \A y \in S : x <= y
         IN  <<m>> \o Increasing(S \ {m})

RECURSIVE ColumnsOfLines(_, _, _, _)
ColumnsOfLines(d, ls, from, to) ==
    IF from > to THEN <<>>
    ELSE RecognisedColumn(d, ls[from]) \o ColumnsOfLines(d, ls, from + 1, to)

\* the blocks of the text in order, each with its declared name and its
\* recognised columns (a block whose name is empty records none)
Blocks(d, ls) ==
    LET hs == Increasing(Headers(d, ls)) IN
    [j \in DOMAIN hs |->
        LET nm == HeaderName(d, ls[hs[j]])
            last == IF j < Len(hs) THEN hs[j + 1] - 1 ELSE Len(ls)
        IN  [name |-> nm,
             columns |-> IF nm = "" THEN <<>> ELSE ColumnsOfLines(d, ls, hs[j] + 1, last)]]

HasColumns(block) == block.columns # <<>>

\* the blocks that have at least one recognised column
FilledBlocks(d, ls) == SelectSeq(Blocks(d, ls), HasColumns)

\* the columns of the blocks named nm among bs, from block k on
RECURSIVE ColumnsNamed(_, _, _)
ColumnsNamed(bs, nm, k) ==
    IF k > Len(bs) THEN <<>>
    ELSE (IF bs[k].name = nm THEN bs[k].columns ELSE <<>>) \o ColumnsNamed(bs, nm, k + 1)

\* no two blocks of bs declare the same table name
DistinctNames(bs) == \A h, g \in DOMAIN bs : bs[h].name = bs[g].name => h = g

\* the mapping lists the blocks bs in order, each table with the recognised
\* column lines declared under its name, in line order
TablesFollow(bs, tb) ==
    /\ KeyList(tb) = [j \in DOMAIN bs |-> bs[j].name]
    /\ \A j \in DOMAIN tb : tb[j][2] = ColumnsNamed(bs, tb[j][1], 1)

-----------------------------------------------------------------------------
(* Claims *)

\* C1 as stated, for every input text: the mapping returned by
\* parse_ndc_plus_schema_file iterates the table names in the order of their
\* 'TABLE:' header lines, and each table's column sequence lists the recognised
\* column lines of that table in source line order.
C1_EveryText ==
    (Parsed /\ dialect = "ndc_plus") =>
        TablesFollow(FilledBlocks(dialect, lines), tables)

\* C1, amended: for every input text in which no two table blocks with recognised
\* column lines declare the same table name, the mapping returned by
\* parse_ndc_plus_schema_file iterates the table names in the order of their
\* 'TABLE:' header lines, and each table's column sequence lists the recognised
\* column lines of that table in source line order.
C1_DistinctNames ==
    (Parsed /\ dialect = "ndc_plus") =>
        LET filled == FilledBlocks(dialect, lines) IN
        DistinctNames(filled) => TablesFollow(filled, tables)

\* two tables returned in header order, one with two columns and one with one
C1_Witness ==
    /\ Parsed /\ dialect = "ndc_plus"
    /\ DistinctNames(FilledBlocks(dialect, lines))
    /\ Len(tables) = 2
    /\ \E j \in DOMAIN tables : Len(tables[j][2]) = 2
    /\ \E j \in DOMAIN tables : Len(tables[j][2]) = 1

\* C2: for both parsers, a table name all of whose blocks have zero recognised
\* column lines has no entry in the returned mapping, and every entry of the
\* mapping has a non-empty column sequence.
C2_EmptyTablesDropped ==
    /\ \A j \in DOMAIN tables : tables[j][2] # <<>>
    /\ Parsed =>
          LET filled == FilledBlocks(dialect, lines) IN
          \A j \in DOMAIN tables : \E k \in DOMAIN filled : filled[k].name = tables[j][1]

\* a text with a named block without columns has been parsed: its name is no key
\* of the mapping, which holds another table
C2_Witness ==
    /\ Parsed
    /\ tables # <<>>
    /\ LET bs == Blocks(dialect, lines) IN
       \E k \in DOMAIN bs :
          bs[k].name # "" /\ bs[k].columns = <<>> /\ ~HasKey(tables, bs[k].name)

\* the edges of rs that start at column col_name of table table_name
EdgesFrom(rs, table_name, col_name) ==
    {k \in DOMAIN rs : rs[k].from_table = table_name /\ rs[k].from_column = col_name}

\* how many columns of the list are named col_name
Occurrences(columns, col_name) ==
    Cardinality({k \in DOMAIN columns : columns[k].name = col_name})

\* the column names of the schema that end with a reference suffix
IsReferenceName(col_name) == EndsWith(col_name, "_UUID") \/ EndsWith(col_name, "_GID")

\* the table name identify_relationships looks up for a reference column
LookedUp(col_name) ==
    IF EndsWith(col_name, "_UUID") THEN UuidRefTable(col_name) ELSE GidRefTable(col_name)

\* C3: in identify_relationships, every column whose name ends with '_UUID' or
\* '_GID' gets exactly one edge {from_table, from_column, to_table, to_column:
\* 'UUID'} if the table name looked up for it is a key of the same schema, and no
\* edge if it is not.
C3_EdgeIffTablePresent ==
    pc = "done" =>
        \A t \in DOMAIN tables : \A c \in DOMAIN tables[t][2] :
            LET table_name == tables[t][1]
                col_name == tables[t][2][c].name
                edges == EdgesFrom(relationships, table_name, col_name)
            IN  IsReferenceName(col_name) =>
                    IF HasKey(tables, LookedUp(col_name))
                    THEN /\ Cardinality(edges) = Occurrences(tables[t][2], col_name)
                         /\ \A k \in edges :
                               relationships[k] =
                                   [from_table |-> table_name, from_column |-> col_name,
                                    to_table |-> LookedUp(col_name), to_column |-> "UUID"]
                    ELSE edges = {}

\* one reference column has its edge and another, whose table is missing, has none
C3_Witness ==
    /\ pc = "done"
    /\ \E k \in DOMAIN relationships : relationships[k].to_column = "UUID"
    /\ \E t \in DOMAIN tables : \E c \in DOMAIN tables[t][2] :
          /\ IsReferenceName(tables[t][2][c].name)
          /\ ~HasKey(tables, LookedUp(tables[t][2][c].name))
          /\ EdgesFrom(relationships, tables[t][1], tables[t][2][c].name) = {}

\* the column name with only its trailing suffix removed
TrailingSuffixRemoved(col_name) ==
    IF EndsWith(col_name, "_UUID") THEN SubSeq(col_name, 1, Len(col_name) - 5)
    ELSE SubSeq(col_name, 1, Len(col_name) - 4)

\* C4: in identify_relationships, the table name looked up for a column ending in
\* '_UUID' (or '_GID') is the column name with only its trailing suffix removed:
\* the column has an edge exactly if that name is a key of the schema, and the
\* edge points to that name.
C4_TrailingSuffixOnly ==
    pc = "done" =>
        \A t \in DOMAIN tables : \A c \in DOMAIN tables[t][2] :
            LET table_name == tables[t][1]
                col_name == tables[t][2][c].name
                edges == EdgesFrom(relationships, table_name, col_name)
            IN  IsReferenceName(col_name) =>
                    /\ LookedUp(col_name) = TrailingSuffixRemoved(col_name)
                    /\ (edges # {}) = HasKey(tables, TrailingSuffixRemoved(col_name))
                    /\ \A k \in edges :
                          relationships[k].to_table = TrailingSuffixRemoved(col_name)

\* the edge identify_relationships emits for a WFID column of table table_name
ExternalWaveformEdge(table_name) ==
    [from_table |-> table_name, from_column |-> "WFID",
     to_table |-> "WAVEFORM", to_column |-> "WFID", note |-> "External reference"]

\* C5: for every table of every schema, each column named exactly 'WFID' makes
\* identify_relationships emit an edge to table 'WAVEFORM', column 'WFID', with
\* the note marking it external, whether or not a table 'WAVEFORM' exists.
C5_WfidAlwaysEmitted ==
    pc = "done" =>
        \A t \in DOMAIN tables :
            LET edges == EdgesFrom(relationships, tables[t][1], "WFID") IN
            /\ Cardinality(edges) = Occurrences(tables[t][2], "WFID")
            /\ \A k \in edges : relationships[k] = ExternalWaveformEdge(tables[t][1])

\* a WFID column has its edge in a schema without a WAVEFORM table
C5_Witness ==
    /\ pc = "done"
    /\ ~HasKey(tables, "WAVEFORM")
    /\ \E t \in DOMAIN tables :
          /\ Occurrences(tables[t][2], "WFID") > 0
          /\ \E k \in DOMAIN relationships :
                relationships[k] = ExternalWaveformEdge(tables[t][1])

\* the columns the parser has recorded so far
RecordedColumns ==
    {current_columns[k] : k \in DOMAIN current_columns}
        \cup UNION {{tables[t][2][c] : c \in DOMAIN tables[t][2]} : t \in DOMAIN tables}

\* C10: in the modern parser, every recorded column has primary_key = true if and
\* only if (it is recorded as not nullable, its marker being exactly 'NOT NULL',
\* and its name is exactly 'UUID') or its name is 'INID' or 'STA_GRP_NAME'.
C10_PrimaryKeyHeuristic ==
    dialect = "ndc_plus" =>
        \A col \in RecordedColumns :
            col.primary_key =
                ((~col.nullable /\ col.name = "UUID")
                     \/ col.name \in {"INID", "STA_GRP_NAME"})

\* a nullable INID column flagged primary, beside a NOT NULL column that is not
C10_Witness ==
    /\ dialect = "ndc_plus" /\ Parsed
    /\ \E col \in RecordedColumns : col.name = "INID" /\ col.nullable /\ col.primary_key
    /\ \E col \in RecordedColumns : ~col.nullable /\ ~col.primary_key

\* the (legacy, modern) pairs of the fixed mapping
MappedPairs == {legacy_to_ndc_mappings[m] : m \in DOMAIN legacy_to_ndc_mappings}

CrossDone == main_pc \in {"generate_json", "dump_json", "done"}

\* the edges of cross_relationships for the pair (l, m)
CrossEdgesFor(l, m) ==
    {k \in DOMAIN cross_relationships :
        cross_relationships[k].legacy_table = l /\ cross_relationships[k].ndc_plus_table = m}

\* C6: for every pair of parsed schemas and every entry (L, M) of the fixed
\* legacy-to-modern mapping, identify_cross_schema_relationships emits exactly one
\* edge for (L, M) if L is a key of the legacy schema and M a key of the modern
\* schema, and none otherwise; no edge is emitted for a pair outside the mapping.
C6_CrossEdgeIffBothPresent ==
    CrossDone =>
        /\ \A pair \in MappedPairs :
              Cardinality(CrossEdgesFor(pair[1], pair[2])) =
                  IF HasKey(legacy_tables, pair[1]) /\ HasKey(ndc_plus_tables, pair[2])
                  THEN 1 ELSE 0
        /\ \A k \in DOMAIN cross_relationships :
              <<cross_relationships[k].legacy_table,
                cross_relationships[k].ndc_plus_table>> \in MappedPairs

\* ORIGIN and LOCATION_SOLUTION are mapped, EVENT is missing on the modern side,
\* and the legacy schema holds a table that only the modern side of the mapping
\* names
C6_Witness ==
    /\ CrossDone
    /\ CrossEdgesFor("ORIGIN", "LOCATION_SOLUTION") # {}
    /\ HasKey(legacy_tables, "EVENT") /\ ~HasKey(ndc_plus_tables, "EVENT")
    /\ CrossEdgesFor("EVENT", "EVENT") = {}

\* the markers of each group, in the order of precedence of section 4.2
MarkerGroups ==
    << [markers |-> {"VARCHAR", "CHAR", "CLOB"}, type |-> "string"],
       [markers |-> {"NUMBER", "FLOAT"}, type |-> "number"],
       [markers |-> {"DATE", "TIMESTAMP"}, type |-> "timestamp"],
       [markers |-> {"RAW"}, type |-> "binary"] >>

\* the groups of which the upper-cased declared type contains a marker
GroupsIn(declared) ==
    {g \in DOMAIN MarkerGroups :
        \E m \in MarkerGroups[g].markers : Contains(Upper(declared), m)}

\* the type of the first such group, 'string' when there is none
TypeByPrecedence(declared) ==
    IF GroupsIn(declared) = {} THEN "string"
    ELSE MarkerGroups[CHOOSE g \in GroupsIn(declared) :
                          \A h \in GroupsIn(declared) : g <= h].type

\* C7: for every declared type string, map_oracle_type_to_json and
\* map_oracle_to_json_type return the semantic type of the highest-precedence
\* marker group the upper-cased string contains (VARCHAR/CHAR/CLOB, then
\* NUMBER/FLOAT, then DATE/TIMESTAMP, then RAW) and 'string' when it contains no
\* marker; a type containing CLOB maps to 'string' whatever else it contains.
C7_MarkerPrecedence ==
    /\ dual_json_type # None => dual_json_type[1] = TypeByPrecedence(oracle_type)
    /\ json_type # None => json_type[1] = TypeByPrecedence(oracle_type)

\* the last run rewrote the file, and it was not the first run
RewrittenAgain == viewer_runs >= 2 /\ viewer_outcome = "updated"

\* C9: a second run of generate_complete_html_viewer over an unchanged
\* dual_schema.json leaves the HTML viewer file with exactly the content it
\* had after the first run
C9_SecondRunLeavesFile == RewrittenAgain => html_file = html_after_first[1]

\* the modern parser is about to read a candidate column line inside a table
\* block: not a 'TABLE:' line, not a skipped line, and a table is current
NdcCandidateNext ==
    /\ pc = "parse" /\ dialect = "ndc_plus" /\ i < Len(lines)
    /\ ~StartsWith(Strip(lines[i + 1]), "TABLE:")
    /\ ~NdcSkipped(Strip(lines[i + 1]))
    /\ Truthy(current_table)

\* the parts of the line the parser is about to read
NextParts == ReSplit2(Strip(lines[i + 1]))

\* the step appends exactly one column with the given name, type and nullability
AppendsColumn(name, type, nullable) ==
    /\ Len(current_columns') = Len(current_columns) + 1
    /\ SubSeq(current_columns', 1, Len(current_columns)) = current_columns
    /\ LET col == current_columns'[Len(current_columns')] IN
          col.name = name /\ col.type = type /\ col.nullable = nullable

\* C11: in the modern parser a candidate column line inside a table block yields
\* exactly one column when it splits on runs of two or more whitespace characters
\* into exactly 3 parts (name, marker, type; nullable = marker # 'NOT NULL') or
\* exactly 2 parts (name, type; nullable = true), and no column for any other
\* number of parts.
C11_PartsDecideColumn ==
    [][NdcCandidateNext =>
          IF Len(NextParts) = 3
          THEN AppendsColumn(NextParts[1], NextParts[3], NextParts[2] # "NOT NULL")
          ELSE IF Len(NextParts) = 2
               THEN AppendsColumn(NextParts[1], NextParts[2], TRUE)
               ELSE current_columns' = current_columns]_vars

\* the number of parts of line k of the text
PartsOfLine(k) == Len(ReSplit2(Strip(lines[k])))

\* a table block whose candidate lines, one of 4 parts and one of 2 parts, have
\* been read: the table has the one column of the 2-part line
C11_Witness ==
    /\ dialect = "ndc_plus" /\ pc = "parse" /\ i = Len(lines) /\ Len(lines) = 3
    /\ StartsWith(lines[1], "TABLE:") /\ Truthy(current_table)
    /\ {PartsOfLine(2), PartsOfLine(3)} = {4, 2}
    /\ Len(current_columns) = 1

\* the modern parser is about to read a line with the prefix 'TABLE:'
NdcHeaderNext ==
    /\ pc = "parse" /\ dialect = "ndc_plus" /\ i < Len(lines)
    /\ StartsWith(Strip(lines[i + 1]), "TABLE:")

\* everything after the prefix 'TABLE:' of the line about to be read, trimmed
AfterPrefix == Strip(SubSeq(Strip(lines[i + 1]), Len("TABLE:") + 1, Len(Strip(lines[i + 1]))))

\* the modern parser, with a 'TABLE:' line behind it, is about to read a valid
\* column line: not a 'TABLE:' line, not a skipped line, 2 or 3 parts
NdcValidColumnNext ==
    /\ pc = "parse" /\ dialect = "ndc_plus" /\ i < Len(lines)
    /\ current_table # None
    /\ ~StartsWith(Strip(lines[i + 1]), "TABLE:")
    /\ ~NdcSkipped(Strip(lines[i + 1]))
    /\ Len(NextParts) \in {2, 3}

\* C12: in the modern parser every line with the prefix 'TABLE:' flushes the
\* current table (if it has columns) and starts a table whose name is everything
\* after the prefix, trimmed; every valid column line that follows, up to the
\* next 'TABLE:' line, is recorded for that table.  This also for a line whose
\* name part is empty or contains the text 'TABLE:'.
C12_HeaderStartsTable ==
    [][/\ NdcHeaderNext =>
            /\ current_table' = Str(AfterPrefix)
            /\ current_columns' = <<>>
            /\ tables' = IF current_table # None /\ current_columns # <<>>
                         THEN DictSet(tables, current_table[1], current_columns)
                         ELSE tables
       /\ NdcValidColumnNext =>
            /\ Len(current_columns') = Len(current_columns) + 1
            /\ current_table' = current_table]_vars

\* the characters of a legacy table token
TokenChars == {Char("ABCDEFGHIJKLMNOPQRSTUVWXYZ_", k) : k \in 1..27}

\* s is n token characters, then w whitespace characters, then 'TABLE:'
ShapedAs(s, n, w) ==
    /\ n >= 1 /\ w >= 1 /\ n + w + Len("TABLE:") = Len(s)
    /\ \A k \in 1..n : Char(s, k) \in TokenChars
    /\ \A k \in (n + 1)..(n + w) : IsSpace(Char(s, k))
    /\ SubSeq(s, n + w + 1, Len(s)) = "TABLE:"

\* s is one token of uppercase letters and underscores, whitespace and 'TABLE:'
HeaderShaped(s) == \E n, w \in 1..Len(s) : ShapedAs(s, n, w)

\* the token of a header-shaped line
TokenOf(s) == SubSeq(s, 1, CHOOSE n \in 1..Len(s) : \E w \in 1..Len(s) : ShapedAs(s, n, w))

\* the legacy parser is about to read a line
LegacyLineNext == pc = "parse" /\ dialect = "legacy" /\ i < Len(lines)

\* every key of the mapping is a non-empty string over [A-Z_]
KeysAreTokens ==
    \A t \in DOMAIN tables :
        /\ tables[t][1] # ""
        /\ \A k \in 1..Len(tables[t][1]) : Char(tables[t][1], k) \in TokenChars

\* C13: in the legacy parser a line (as trimmed by the parser) starts a new table
\* if and only if it consists of one token of uppercase letters and underscores,
\* whitespace, and the literal 'TABLE:' with nothing after it; the table name is
\* that token, so every key of the returned mapping is a non-empty string over
\* [A-Z_].
C13_HeaderPattern ==
    /\ [](dialect = "legacy" => KeysAreTokens)
    /\ [][LegacyLineNext =>
            IF HeaderShaped(Strip(lines[i + 1]))
            THEN /\ current_table' = Str(TokenOf(Strip(lines[i + 1])))
                 /\ current_columns' = <<>>
            ELSE /\ current_table' = current_table
                 /\ tables' = tables
                 /\ Len(current_columns') >= Len(current_columns)
                 /\ SubSeq(current_columns', 1, Len(current_columns)) = current_columns]_vars

\* a header started table EV, and a line that ends with 'TABLE:' without being
\* of the header shape started none
C13_Witness ==
    /\ dialect = "legacy" /\ Parsed
    /\ KeyList(tables) = <<"EV">>
    /\ \E k \in DOMAIN lines :
          EndsWith(Strip(lines[k]), "TABLE:") /\ ~HeaderShaped(Strip(lines[k]))

\* the original, unstripped line begins with whitespace (space or tab)
Indented(raw) == Len(raw) > 0 /\ IsSpace(Char(raw, 1))

\* C14: in the legacy parser header and column lines are told apart by the
\* indentation of the original, unstripped line: a line that begins with
\* whitespace (space or tab) is never treated as a table header and, inside a
\* table block with at least 2 parts, is recorded as a column; a line without
\* leading whitespace is never recorded as a column.
C14_IndentationDecides ==
    [][LegacyLineNext =>
          IF Indented(lines[i + 1])
          THEN /\ current_table' = current_table
               /\ tables' = tables
               /\ SubSeq(current_columns', 1, Len(current_columns)) = current_columns
               /\ (current_table # None /\ Len(NextParts) >= 2) =>
                      Len(current_columns') = Len(current_columns) + 1
          ELSE Len(current_columns') <= Len(current_columns)]_vars

\* the identifier column names of the claim
KnownIdentifiers ==
    {"EVID", "ORID", "ARID", "AMPID", "MAGID", "COMMID", "TAGID", "WFID", "QCMASKID"}

\* primary_key and nullable of a legacy column follow from its name
LegacyFlagsFollowName(col) ==
    /\ col.primary_key = (col.name \in KnownIdentifiers)
    /\ col.nullable = ~col.primary_key
    /\ ~(col.nullable /\ col.primary_key)

\* C15: in the legacy parser every recorded column has primary_key = true if and
\* only if its name is one of EVID, ORID, ARID, AMPID, MAGID, COMMID, TAGID,
\* WFID, QCMASKID, and nullable = not primary_key; no legacy column is ever both
\* nullable and primary.
C15_LegacyPrimaryKey ==
    dialect = "legacy" =>
        /\ \A c \in DOMAIN current_columns : LegacyFlagsFollowName(current_columns[c])
        /\ \A t \in DOMAIN tables : \A c \in DOMAIN tables[t][2] :
              LegacyFlagsFollowName(tables[t][2][c])

\* a legacy table returned with a primary column and a column that is not
C15_Witness ==
    /\ dialect = "legacy" /\ Parsed
    /\ \E t \in DOMAIN tables : \E c, d \in DOMAIN tables[t][2] :
          /\ tables[t][2][c].primary_key /\ ~tables[t][2][c].nullable
          /\ ~tables[t][2][d].primary_key /\ tables[t][2][d].nullable

\* line k of the text is a table header of the dialect read
IsTableLine(k) ==
    IF dialect = "ndc_plus" THEN StartsWith(Strip(lines[k]), "TABLE:")
    ELSE HeaderShaped(Strip(lines[k]))

\* line k is stray text before the first table header
StrayBeforeTables(k) == \A j \in 1..k : ~IsTableLine(j)

\* line k is a non-header line inside a table block with fewer than 2 parts
TooFewParts(k) ==
    /\ ~IsTableLine(k)
    /\ \E j \in 1..(k - 1) : IsTableLine(j)
    /\ PartsOfLine(k) < 2

\* the lines of the file with line k deleted (the empty file has one empty line)
WithoutLine(ls, k) ==
    IF Len(ls) = 1 THEN <<"">>
    ELSE SubSeq(ls, 1, k - 1) \o SubSeq(ls, k + 1, Len(ls))

\* the mapping the parser of the dialect returns for the lines ls
ParsedFrom(ls) ==
    IF dialect = "ndc_plus" THEN parse_ndc_plus_schema_file(ls)
    ELSE parse_legacy_schema_file(ls)

\* C16: for both parsers and every input text, deleting a line that is stray text
\* before the first table header, or a non-header line inside a table block that
\* splits into fewer than 2 parts, yields exactly the same returned mapping.
C16_MalformedLinesSkipped ==
    Parsed =>
        \A k \in DOMAIN lines :
            (StrayBeforeTables(k) \/ TooFewParts(k)) =>
                ParsedFrom(WithoutLine(lines, k)) = tables

\* a text with stray text before its first header and a one-part line inside a
\* block has been parsed into a table
C16_Witness ==
    /\ Parsed /\ tables # <<>>
    /\ \E k \in DOMAIN lines : StrayBeforeTables(k) /\ Strip(lines[k]) # ""
    /\ \E k \in DOMAIN lines : TooFewParts(k) /\ Strip(lines[k]) # ""

\* the value under key of a JSON object
JGet(obj, key) == DictGet(obj.v, key)

\* the JSON object tables_json lists the tables of the mapping tbls, in order,
\* each with columns of that table only
ListsTablesOf(tables_json, tbls) ==
    /\ KeyList(tables_json.v) = KeyList(tbls)
    /\ \A t \in DOMAIN tbls :
          LET cols == JGet(JGet(tables_json, tbls[t][1]), "columns") IN
          /\ DictKeys(cols.v) = {tbls[t][2][c].name : c \in DOMAIN tbls[t][2]}
          /\ \A e \in DOMAIN cols.v : \E c \in DOMAIN tbls[t][2] :
                /\ tbls[t][2][c].name = cols.v[e][1]
                /\ JGet(cols.v[e][2], "oracle_type") = JStr(tbls[t][2][c].type)
                /\ JGet(cols.v[e][2], "nullable") = JBool(tbls[t][2][c].nullable)
                /\ JGet(cols.v[e][2], "primary_key") = JBool(tbls[t][2][c].primary_key)

\* in the generated document each schema's tables are under that schema only
SchemasApart ==
    json_schema # None =>
        LET schemas == JGet(json_schema[1], "schemas") IN
        /\ ListsTablesOf(JGet(JGet(schemas, "legacy"), "tables"), legacy_tables)
        /\ ListsTablesOf(JGet(JGet(schemas, "ndc_plus"), "tables"), ndc_plus_tables)

\* both files have been parsed: what runs next is inference or generation
AfterParsing ==
    main_pc \in {"identify_legacy", "identify_ndc_plus", "identify_cross",
                 "generate_json", "dump_json"}

\* C17: identify_relationships, identify_cross_schema_relationships and
\* generate_dual_schema_json leave the legacy and modern table mappings unchanged,
\* and in the generated JSON every legacy table appears only under
\* schemas.legacy.tables and every modern table only under the modern schema's
\* tables, also for a table name present in both schemas.
C17_SchemasNeverMerge ==
    /\ []SchemasApart
    /\ [][AfterParsing =>
            legacy_tables' = legacy_tables /\ ndc_plus_tables' = ndc_plus_tables]_vars

\* the document has been written for two schemas that both have a table EVENT,
\* with different columns, and a cross-schema edge between them
C17_Witness ==
    /\ main_pc = "done" /\ json_schema # None
    /\ HasKey(legacy_tables, "EVENT") /\ HasKey(ndc_plus_tables, "EVENT")
    /\ DictGet(legacy_tables, "EVENT") # DictGet(ndc_plus_tables, "EVENT")
    /\ cross_relationships # <<>>
    /\ legacy_relationships \o ndc_plus_relationships # <<>>

\* the columns of the schema in encounter order, each as <<table, column name>>:
\* tables in the insertion order of the mapping, columns in declaration order
RECURSIVE ColumnsInOrder(_, _)
ColumnsInOrder(tbls, t) ==
    IF t > Len(tbls) THEN <<>>
    ELSE [c \in DOMAIN tbls[t][2] |-> <<tbls[t][1], tbls[t][2][c].name>>]
             \o ColumnsInOrder(tbls, t + 1)

\* the column <<table, name>> triggers a rule of identify_relationships
Triggers(tbls, column) ==
    \/ EndsWith(column[2], "_UUID") /\ HasKey(tbls, LookedUp(column[2]))
    \/ EndsWith(column[2], "_GID") /\ HasKey(tbls, LookedUp(column[2]))
    \/ column[2] = "WFID"

\* the origins <<from_table, from_column>> of a list of edges
Origins(rs) == [k \in DOMAIN rs |-> <<rs[k].from_table, rs[k].from_column>>]

\* C18: identify_relationships performs no deduplication and returns edges in
\* encounter order: tables in the insertion order of the schema mapping and,
\* within a table, columns in declaration order; two columns with the same name
\* and table produce two equal edges.
C18_EncounterOrder ==
    pc = "done" =>
        LET triggering(column) == Triggers(tables, column) IN
        Origins(relationships) = SelectSeq(ColumnsInOrder(tables, 1), triggering)

\* two tables with edges, and one of them with the same column twice and so
\* with two equal edges one after the other
C18_Witness ==
    /\ pc = "done"
    /\ \E k \in DOMAIN relationships :
          /\ k + 1 \in DOMAIN relationships
          /\ relationships[k] = relationships[k + 1]
    /\ \E k, j \in DOMAIN relationships :
          relationships[k].from_table # relationships[j].from_table

\* some column of the schema produced more edges than it has occurrences in its
\* table: one column produced several edges
SomeColumnSeveralEdges ==
    \E t \in DOMAIN tables : \E c \in DOMAIN tables[t][2] :
        Cardinality(EdgesFrom(relationships, tables[t][1], tables[t][2][c].name))
            > Occurrences(tables[t][2], tables[t][2][c].name)

CompletedRun ==
    \/ viewer_outcome = "updated"
    \/ viewer_outcome = "no_marker"

\* C20: for every HTML template text, generate_complete_html_viewer either
\* rewrites the file with the embedded JSON or (when the 'const schemaData = {'
\* marker is absent) returns leaving the file unchanged; it never fails with a
\* non-I/O error, including when the marker is present but no balancing closing
\* brace follows it.
C20_RunCompletes ==
    viewer_runs > 0 =>
        /\ CompletedRun
        /\ viewer_outcome = "updated" =>
              Find(html_file, "const schemaData = " \o JsonDumps(json_schema[1]) \o ";") # -1

\* the entry <<name, JSON object>> of a 'columns' mapping carries the raw type,
\* the mapped type, nullable and primary_key of the column descriptor col
CarriesDescriptor(entry, col) ==
    /\ entry[1] = col.name
    /\ JGet(entry[2], "oracle_type") = JStr(col.type)
    /\ JGet(entry[2], "type") = JStr(map_oracle_type_to_json(col.type))
    /\ JGet(entry[2], "nullable") = JBool(col.nullable)
    /\ JGet(entry[2], "primary_key") = JBool(col.primary_key)

\* the 'columns' mapping of table t of tbls in the document's object tables_json
ColumnsJson(tables_json, tbls, t) == JGet(JGet(tables_json, tbls[t][1]), "columns").v

\* one entry per column descriptor, in declaration order
EntryPerDescriptor(tables_json, tbls) ==
    \A t \in DOMAIN tbls :
        LET cols == ColumnsJson(tables_json, tbls, t) IN
        /\ Len(cols) = Len(tbls[t][2])
        /\ \A c \in DOMAIN cols : CarriesDescriptor(cols[c], tbls[t][2][c])

\* the positions of the descriptors that are the first of their name
FirstOfName(columns) ==
    Increasing({c \in DOMAIN columns : \A d \in 1..(c - 1) : columns[d].name # columns[c].name})

\* the position of the last descriptor named as the one at position c
LastOfName(columns, c) ==
    CHOOSE d \in DOMAIN columns :
        /\ columns[d].name = columns[c].name
        /\ \A e \in DOMAIN columns : columns[e].name = columns[c].name => e <= d

\* one entry per column name, in the order the names are first declared, with
\* the values of the last descriptor of the name
EntryPerName(tables_json, tbls) ==
    \A t \in DOMAIN tbls :
        LET cols == ColumnsJson(tables_json, tbls, t)
            firsts == FirstOfName(tbls[t][2])
        IN  /\ Len(cols) = Len(firsts)
            /\ \A e \in DOMAIN cols :
                  CarriesDescriptor(cols[e], tbls[t][2][LastOfName(tbls[t][2], firsts[e])])

LegacyTablesJson == JGet(JGet(JGet(json_schema[1], "schemas"), "legacy"), "tables")
NdcPlusTablesJson == JGet(JGet(JGet(json_schema[1], "schemas"), "ndc_plus"), "tables")

\* C21 as stated: for every table of either parsed schema, the 'columns' mapping
\* produced by generate_dual_schema_json has exactly one entry per parsed column
\* descriptor, in declaration order, each carrying that descriptor's raw type,
\* mapped type, nullable and primary_key values, also when two descriptors of one
\* table share a name.
C21_EntryPerDescriptor ==
    json_schema # None =>
        /\ EntryPerDescriptor(LegacyTablesJson, legacy_tables)
        /\ EntryPerDescriptor(NdcPlusTablesJson, ndc_plus_tables)

\* C21, amended: for every table of either parsed schema, the 'columns' mapping
\* has exactly one entry per column name, in the order in which the names are
\* first declared, carrying the raw type, mapped type, nullable and primary_key
\* of the last descriptor of that name; for a table whose column names are
\* distinct this is one entry per descriptor, in declaration order.
C21_EntryPerName ==
    json_schema # None =>
        /\ EntryPerName(LegacyTablesJson, legacy_tables)
        /\ EntryPerName(NdcPlusTablesJson, ndc_plus_tables)

\* the document has been generated for a modern table EVENT declared with columns
\* UUID, LAT, UUID: its 'columns' mapping has the two entries UUID and LAT
C21_Witness ==
    /\ json_schema # None
    /\ HasKey(ndc_plus_tables, "EVENT")
    /\ [c \in 1..Len(DictGet(ndc_plus_tables, "EVENT")) |->
            DictGet(ndc_plus_tables, "EVENT")[c].name] = <<"UUID", "LAT", "UUID">>
    /\ KeyList(JGet(JGet(NdcPlusTablesJson, "EVENT"), "columns").v) = <<"UUID", "LAT">>
    /\ \E t \in DOMAIN legacy_tables : Len(legacy_tables[t][2]) = 1

\* the positions among the blocks bs of the blocks that are the first of their name
FirstBlockOfName(bs) ==
    Increasing({k \in DOMAIN bs : \A j \in 1..(k - 1) : bs[j].name # bs[k].name})

\* the last block among bs that is named nm
LastBlockNamed(bs, nm) ==
    bs[CHOOSE k \in DOMAIN bs :
           bs[k].name = nm /\ \A j \in DOMAIN bs : bs[j].name = nm => j <= k]

\* C22: when the same table name is declared in more than one block of an input
\* text, the two parsers never merge the blocks: the entry for that name holds
\* exactly the columns of the last block of that name that has at least one
\* column (a later block with zero columns does not remove or change the earlier
\* entry), and the name keeps the position of its first non-empty block in the
\* mapping's iteration order.
C22_LastBlockWins ==
    Parsed =>
        LET filled == FilledBlocks(dialect, lines)
            firsts == FirstBlockOfName(filled)
        IN  /\ KeyList(tables) = [e \in DOMAIN firsts |-> filled[firsts[e]].name]
            /\ \A t \in DOMAIN tables :
                  tables[t][2] = LastBlockNamed(filled, tables[t][1]).columns

\* a text with three blocks that have columns, the first and the third of one
\* name, has been parsed: that name is listed first, with the one column of its
\* second block only
C22_Witness ==
    /\ Parsed
    /\ LET filled == FilledBlocks(dialect, lines) IN
          /\ Len(filled) = 3
          /\ filled[1].name = filled[3].name /\ filled[2].name # filled[1].name
    /\ Len(tables) = 2
    /\ Len(tables[1][2]) = 1

\* a parser is inside its line loop with a line still to read
InLineLoop == pc = "parse" /\ i < Len(lines)

\* the lines before the line index have been examined once, the others not yet
ExaminedOnce ==
    \A k \in DOMAIN lines :
        visits[k] = IF pc = "parse" /\ k > i THEN 0 ELSE 1

\* C23: both parser loops terminate on every finite input: each iteration of the
\* line loop increases the line index by exactly one on every branch (header,
\* skipped line, column line, rejected line), so each line is examined exactly
\* once and the final flush is reached.
C23_LoopsTerminate ==
    /\ []ExaminedOnce
    /\ [][InLineLoop => i' = i + 1]_vars
    /\ <>(pc = "parsed")

\* a modern text with a header, a skipped line, a column line and a rejected line
\* has been read to its end, each line once, and flushed
C23_Witness ==
    /\ dialect = "ndc_plus" /\ pc = "parsed"
    /\ visits = <<1, 1, 1, 1>>
    /\ lines[1] = "TABLE: EV"
    /\ \E k \in DOMAIN lines : lines[k] = "---"
    /\ \E k \in DOMAIN lines : lines[k] = "UUID  NOT NULL  RAW(16)"
    /\ \E k \in DOMAIN lines : lines[k] = "X"
    /\ Len(tables) = 1

====
